---- MODULE Spec2Model ----
(***************************************************************************)
(* Model of run_with_notification.py: main() parses the command, runs it   *)
(* through run_command() (one child process, two reader threads feeding a  *)
(* shared queue, a draining loop with an optional timeout) and then sends  *)
(* an e-mail notification through send_email.EmailNotifier.                *)
(*                                                                         *)
(* Text is modelled as a sequence of one-character strings, so that        *)
(* rstrip, join, shlex.split and the operator scan of get_shell_command    *)
(* are computed the way the code computes them.  The clock counts whole    *)
(* seconds.                                                                *)
(***************************************************************************)
EXTENDS Integers, Sequences, FiniteSets, TLC

VARIABLES
    args,           \* argparse namespace: command_string, command, timeout
    no_email,       \* args.no_email (main rewrites it at line 359)
    env_password,   \* TRUE iff EMAIL_APP_PASSWORD is set and non-empty
    system,         \* platform.system().lower()
    mpc,            \* position of main()
    command,        \* main's local `command`
    exec_command,   \* run_command's local `exec_command`
    rpc,            \* position of the calling thread inside run_command()
    start_time,     \* run_command's local `start_time`
    now,            \* time.time(), in whole seconds
    waited,         \* seconds spent in the calling thread's current blocking call
    proc,           \* the child process (subprocess.Popen object and the OS process);
                    \* `blocked` names the stream whose full pipe it is writing to
    emitted,        \* per stream: the raw lines the child has written so far
    pipe,           \* per stream: lines written by the child, not yet read
    reader,         \* per stream: state of the stream_output thread
    output_queue,   \* the shared Queue of (prefix, line) events
    stdout_lines,   \* run_command's local list
    stderr_lines,   \* run_command's local list
    terminal,       \* per channel: the captured lines echoed by the draining loop
    signals,        \* terminate()/kill() requests issued to the child, in order
    results,        \* every tuple run_command has returned, in order
    notifier,       \* TRUE once EmailNotifier() has been constructed
    sends,          \* every send_notification attempt: status and outcome
    host_exit       \* argument of sys.exit (meaningful when mpc = "exited")

vars == << args, no_email, env_password, system, mpc, command, exec_command,
           rpc, start_time, now, waited, proc, emitted, pipe, reader,
           output_queue, stdout_lines, stderr_lines, terminal, signals,
           results, notifier, sends, host_exit >>

(***************************************************************************)
(* Bounds of the model                                                     *)
(***************************************************************************)
MaxEmit == 3
MaxTime == 8
MaxArgs == 2
PipeCap == 1

(***************************************************************************)
(* Program constants                                                       *)
(***************************************************************************)
EXIT_TIMEOUT == 124
EXIT_NOT_FOUND == 127
EXIT_ERROR == 1
EXIT_PARSE == 1
GracePeriod == 5
JoinTimeout == 1
PollTicks == 1

Streams == {"STDOUT", "STDERR"}

(***************************************************************************)
(* Text helpers                                                            *)
(***************************************************************************)
Whitespace == {" ", "\t", "\n", "\r"}

\* str.rstrip(): drop every trailing whitespace character
RECURSIVE rstrip(_)
rstrip(s) ==
    IF Len(s) = 0 THEN s
    ELSE IF s[Len(s)] \in Whitespace THEN rstrip(SubSeq(s, 1, Len(s) - 1))
    ELSE s

\* sep.join(parts)
RECURSIVE join(_, _)
join(sep, parts) ==
    IF Len(parts) = 0 THEN << >>
    ELSE IF Len(parts) = 1 THEN parts[1]
    ELSE parts[1] \o sep \o join(sep, Tail(parts))

\* `needle in hay` for strings
Contains(hay, needle) ==
    \E i \in 1..(Len(hay) - Len(needle) + 1) :
        SubSeq(hay, i, i + Len(needle) - 1) = needle

(***************************************************************************)
(* get_shell_command                                                       *)
(***************************************************************************)
ShellOperators ==
    << <<"|">>, <<">">>, <<"<">>, <<"&", "&">>, <<"|", "|">>, <<";">>, <<"&">> >>

has_shell_operators(command_str) ==
    \E k \in 1..Len(ShellOperators) : Contains(command_str, ShellOperators[k])

\* get_shell_command handing the shell only the first argument
get_shell_command_first_only(cmd, sys) ==
    LET command_str == join(<<" ">>, cmd) IN
    IF has_shell_operators(command_str)
    THEN IF sys = "windows"
         THEN << <<"c", "m", "d">>, <<"/", "c">>, cmd[1] >>
         ELSE << <<"b", "a", "s", "h">>, <<"-", "c">>, cmd[1] >>
    ELSE cmd

get_shell_command(cmd, sys) ==
    LET command_str == join(<<" ">>, cmd) IN
    IF has_shell_operators(command_str)
    THEN IF sys = "windows"
         THEN << <<"c", "m", "d">>, <<"/", "c">>, command_str >>
         ELSE << <<"b", "a", "s", "h">>, <<"-", "c">>, command_str >>
    ELSE cmd

(***************************************************************************)
(* shlex.split (POSIX mode, whitespace_split) over the characters the      *)
(* model uses: whitespace separates tokens, ' and " quote, and a quote     *)
(* left open at the end of the text raises ValueError.  The backslash is   *)
(* not in the model's alphabet.                                            *)
(***************************************************************************)
Quotes == {"'", "\""}

RECURSIVE shlex_scan(_, _, _, _, _, _)
shlex_scan(s, i, state, token, quoted, acc) ==
    IF i > Len(s)
    THEN IF state \in Quotes
         THEN [ok |-> FALSE, tokens |-> << >>]
         ELSE IF state = "a" /\ (token # << >> \/ quoted)
              THEN [ok |-> TRUE, tokens |-> Append(acc, token)]
              ELSE [ok |-> TRUE, tokens |-> acc]
    ELSE LET c == s[i] IN
         IF state \in Quotes
         THEN IF c = state
              THEN shlex_scan(s, i + 1, "a", token, TRUE, acc)
              ELSE shlex_scan(s, i + 1, state, Append(token, c), TRUE, acc)
         ELSE IF c \in Whitespace
              THEN IF state = "a" /\ (token # << >> \/ quoted)
                   THEN shlex_scan(s, i + 1, " ", << >>, FALSE, Append(acc, token))
                   ELSE shlex_scan(s, i + 1, " ", << >>, FALSE, acc)
              ELSE IF c \in Quotes
                   THEN shlex_scan(s, i + 1, c, token, TRUE, acc)
                   ELSE shlex_scan(s, i + 1, "a", Append(token, c), quoted, acc)

shlex_split(s) == shlex_scan(s, 1, " ", << >>, FALSE, << >>)

(***************************************************************************)
(* Inputs                                                                  *)
(***************************************************************************)
\* The positional strings are "a 'b;c'", "'a b" (quote left open) and "";
\* the --command list is a b.
\* --timeout values; 0 stands for "not given" (None and 0 are both falsy at line 253)
Timeouts == {0, 1}

Systems == {"linux", "windows"}

\* exit codes a child may exit with on its own
ExitCodes == {0, 124, 255}

Args(str, lst, t) ==
    [command_string |-> str, has_command |-> (lst # << >>), command |-> lst,
     timeout |-> t]

WrapString == <<"a", " ", "'", "b", ";", "c", "'">>
OpenQuote == <<"'", "a", " ", "b">>
PlainList == << <<"a">>, <<"b">> >>

\* The invocations the model starts from: every value of every input occurs,
\* and each of the timeout, --no-email and password cases occurs with a
\* command that runs.  run_command reads only the command, the platform and
\* the timeout.
Invocations ==
    { [args |-> Args(<< >>, PlainList, 1), no_email |-> FALSE, password |-> TRUE,
       system |-> "linux"],
      [args |-> Args(WrapString, << >>, 0), no_email |-> FALSE, password |-> TRUE,
       system |-> "windows"],
      [args |-> Args(WrapString, << >>, 1), no_email |-> TRUE, password |-> TRUE,
       system |-> "linux"],
      [args |-> Args(<< >>, PlainList, 0), no_email |-> FALSE, password |-> FALSE,
       system |-> "windows"],
      [args |-> Args(<< >>, PlainList, 0), no_email |-> TRUE, password |-> FALSE,
       system |-> "linux"] }
    \cup
    { [args |-> Args(str, << >>, t), no_email |-> ne, password |-> pw,
       system |-> "linux"] :
        str \in {OpenQuote, << >>}, t \in Timeouts, ne \in BOOLEAN, pw \in BOOLEAN }

\* the i-th line the child writes to a stream, as readline() returns it
Digit(i) == <<"1", "2", "3", "4", "5", "6", "7", "8", "9">>[i]

OutLine(i) ==
    IF i % 3 = 0 THEN <<"\n">>
    ELSE <<"o", Digit(i)>> \o (IF i % 2 = 1 THEN <<" ">> ELSE << >>) \o <<"\n">>

ErrLine(i) ==
    <<"e", Digit(i)>> \o (IF i % 2 = 0 THEN <<"\t">> ELSE << >>) \o <<"\n">>

RawLine(s, i) == IF s = "STDOUT" THEN OutLine(i) ELSE ErrLine(i)

\* messages the code builds (lines 114, 263, 307, 314), each kept as one symbol
MsgReadError == <<"#read-error">>
MsgTimeout == <<"#timeout">>
MsgNotFound == <<"#not-found">>
MsgSpawnError == <<"#spawn-error">>

NoProc == [state |-> "none", returncode |-> 0, own_exit |-> FALSE,
           blocked |-> "none"]

Init ==
    /\ \E inv \in Invocations :
          /\ args = inv.args
          /\ no_email = inv.no_email
          /\ env_password = inv.password
          /\ system = inv.system
    /\ mpc = "parse"
    /\ command = << >>
    /\ exec_command = << >>
    /\ rpc = "idle"
    /\ start_time = 0
    /\ now = 0
    /\ waited = 0
    /\ proc = NoProc
    /\ emitted = [s \in Streams |-> << >>]
    /\ pipe = [s \in Streams |-> << >>]
    /\ reader = [s \in Streams |-> "idle"]
    /\ output_queue = << >>
    /\ stdout_lines = << >>
    /\ stderr_lines = << >>
    /\ terminal = [s \in Streams |-> << >>]
    /\ signals = << >>
    /\ results = << >>
    /\ notifier = FALSE
    /\ sends = << >>
    /\ host_exit = 0

runVars == << exec_command, rpc, start_time, now, waited, proc, emitted, pipe,
              reader, output_queue, stdout_lines, stderr_lines, terminal,
              signals, results >>

mailVars == << notifier, sends >>

inputVars == << args, env_password, system >>

(***************************************************************************)
(* main(), before run_command                                              *)
(***************************************************************************)
\* MainParse without the sys.exit(1) of line 345
MainParse_no_exit ==
    /\ mpc = "parse"
    /\ LET parsed == shlex_split(args.command_string) IN
       IF args.command_string # << >>
       THEN /\ command' = parsed.tokens
            /\ mpc' = "check_env"
            /\ host_exit' = host_exit
       ELSE IF args.has_command
            THEN /\ command' = args.command
                 /\ mpc' = "check_env"
                 /\ host_exit' = host_exit
            ELSE /\ command' = command
                 /\ mpc' = "exited"
                 /\ host_exit' = 1
    /\ UNCHANGED << inputVars, no_email, runVars, mailVars >>

\* lines 339-351: choose the command; a ValueError of shlex.split exits 1.
\* With an empty positional string and no --command, `command` is None and
\* ' '.join(command) at line 351 raises TypeError: the interpreter exits 1.
MainParse ==
    /\ mpc = "parse"
    /\ LET parsed == shlex_split(args.command_string) IN
       IF args.command_string # << >>
       THEN IF parsed.ok
            THEN /\ command' = parsed.tokens
                 /\ mpc' = "check_env"
                 /\ host_exit' = host_exit
            ELSE /\ command' = command
                 /\ mpc' = "exited"
                 /\ host_exit' = EXIT_PARSE
       ELSE IF args.has_command
            THEN /\ command' = args.command
                 /\ mpc' = "check_env"
                 /\ host_exit' = host_exit
            ELSE /\ command' = command
                 /\ mpc' = "exited"
                 /\ host_exit' = 1
    /\ UNCHANGED << inputVars, no_email, runVars, mailVars >>

\* lines 353-359: without EMAIL_APP_PASSWORD the notification is switched off
MainCheckEnv ==
    /\ mpc = "check_env"
    /\ no_email' = (IF ~no_email /\ ~env_password THEN TRUE ELSE no_email)
    /\ mpc' = "run"
    /\ UNCHANGED << inputVars, command, runVars, mailVars, host_exit >>

(***************************************************************************)
(* run_command(): the calling thread                                       *)
(***************************************************************************)
\* the returned tuple; `path` and `child` are not in the code: they record
\* which return statement produced the tuple and what the child had written
\* and exited with by then
Result(code, out, err, path) ==
    [exit_code |-> code, stdout |-> out, stderr |-> err,
     duration |-> now - start_time, path |-> path,
     child |-> [emitted |-> emitted, returncode |-> proc.returncode]]

\* a return statement of run_command: the tuple goes to main (line 362)
Return(r) ==
    /\ results' = Append(results, r)
    /\ rpc' = "done"
    /\ mpc' = "notify"
    /\ waited' = 0

\* lines 194-198
RunStart ==
    /\ mpc = "run"
    /\ rpc = "idle"
    /\ start_time' = now
    /\ exec_command' = get_shell_command(command, system)
    /\ rpc' = "spawn"
    /\ UNCHANGED << inputVars, no_email, mpc, command, now, waited, proc, emitted,
                    pipe, reader, output_queue, stdout_lines, stderr_lines,
                    terminal, signals, results, mailVars, host_exit >>

\* lines 209-234: Popen succeeds, the queue is created, both readers start
SpawnOk ==
    /\ rpc = "spawn"
    /\ proc' = [state |-> "running", returncode |-> 0, own_exit |-> FALSE,
                blocked |-> "none"]
    /\ reader' = [s \in Streams |-> "reading"]
    /\ rpc' = "loop"
    /\ waited' = 0
    /\ UNCHANGED << inputVars, no_email, mpc, command, exec_command, start_time,
                    now, emitted, pipe, output_queue, stdout_lines, stderr_lines,
                    terminal, signals, results, mailVars, host_exit >>

\* SpawnNotFound without the handler of lines 304-309: the generic handler
\* of lines 311-316 takes the FileNotFoundError
SpawnNotFound_generic ==
    /\ rpc = "spawn"
    /\ Return(Result(EXIT_ERROR, << >>, MsgSpawnError, "not_found"))
    /\ UNCHANGED << inputVars, no_email, command, exec_command, start_time, now,
                    proc, emitted, pipe, reader, output_queue, stdout_lines,
                    stderr_lines, terminal, signals, mailVars, host_exit >>

\* lines 304-309: Popen raises FileNotFoundError
SpawnNotFound ==
    /\ rpc = "spawn"
    /\ Return(Result(EXIT_NOT_FOUND, << >>, MsgNotFound, "not_found"))
    /\ UNCHANGED << inputVars, no_email, command, exec_command, start_time, now,
                    proc, emitted, pipe, reader, output_queue, stdout_lines,
                    stderr_lines, terminal, signals, mailVars, host_exit >>

\* SpawnError without the handler of lines 311-316: the exception leaves
\* run_command and ends main
SpawnError_propagates ==
    /\ rpc = "spawn"
    /\ rpc' = "done"
    /\ mpc' = "exited"
    /\ host_exit' = 1
    /\ UNCHANGED << inputVars, no_email, command, exec_command, start_time, now,
                    waited, proc, emitted, pipe, reader, output_queue,
                    stdout_lines, stderr_lines, terminal, signals, results,
                    mailVars >>

\* SpawnError taken by the handler of lines 304-309 instead
SpawnError_as_not_found ==
    /\ rpc = "spawn"
    /\ Return(Result(EXIT_NOT_FOUND, << >>, MsgNotFound, "error"))
    /\ UNCHANGED << inputVars, no_email, command, exec_command, start_time, now,
                    proc, emitted, pipe, reader, output_queue, stdout_lines,
                    stderr_lines, terminal, signals, mailVars, host_exit >>

\* lines 311-316: Popen raises any other Exception
SpawnError ==
    /\ rpc = "spawn"
    /\ Return(Result(EXIT_ERROR, << >>, MsgSpawnError, "error"))
    /\ UNCHANGED << inputVars, no_email, command, exec_command, start_time, now,
                    proc, emitted, pipe, reader, output_queue, stdout_lines,
                    stderr_lines, terminal, signals, mailVars, host_exit >>

\* Collect without the test of the tag: every event is filed under both streams
Collect_untagged(ev, lines, src) == Append(lines, ev[2])

\* lines 240-246 and 274-278: file one dequeued event under its stream
Collect(ev, lines, src) == IF ev[1] = src THEN Append(lines, ev[2]) ELSE lines

\* lines 242 and 245: the echo of the draining loop
Echo(ev) == [terminal EXCEPT ![ev[1]] = Append(@, ev[2])]

\* lines 240-246: queue.get returns an event
LoopDequeue ==
    /\ rpc = "loop"
    /\ output_queue # << >>
    /\ LET ev == Head(output_queue) IN
       /\ stdout_lines' = Collect(ev, stdout_lines, "STDOUT")
       /\ stderr_lines' = Collect(ev, stderr_lines, "STDERR")
       /\ terminal' = Echo(ev)
    /\ output_queue' = Tail(output_queue)
    /\ waited' = 0
    /\ UNCHANGED << inputVars, no_email, mpc, command, exec_command, rpc,
                    start_time, now, proc, emitted, pipe, reader, signals,
                    results, mailVars, host_exit >>

\* lines 242, 245 and 311-316: print raises on the dequeued line (the terminal
\* cannot encode it); the line is not appended, the generic handler returns
LoopEchoError ==
    /\ rpc = "loop"
    /\ output_queue # << >>
    /\ output_queue' = Tail(output_queue)
    /\ Return(Result(EXIT_ERROR, << >>, MsgSpawnError, "loop_error"))
    /\ UNCHANGED << inputVars, no_email, command, exec_command, start_time, now,
                    proc, emitted, pipe, reader, stdout_lines, stderr_lines,
                    terminal, signals, mailVars, host_exit >>

\* line 253
TimedOut == args.timeout # 0 /\ (now - start_time) > args.timeout

\* LoopEmpty with the two tests in the other order: the timeout test first
LoopEmpty_timeout_first ==
    /\ rpc = "loop"
    /\ output_queue = << >>
    /\ IF TimedOut
       THEN /\ rpc' = "grace"
            /\ signals' = Append(signals, "terminate")
       ELSE IF proc.state = "exited"
            THEN /\ rpc' = "join_out"
                 /\ signals' = signals
            ELSE /\ rpc' = "loop"
                 /\ signals' = signals
    /\ waited' = 0
    /\ UNCHANGED << inputVars, no_email, mpc, command, exec_command, start_time,
                    now, proc, emitted, pipe, reader, output_queue, stdout_lines,
                    stderr_lines, terminal, results, mailVars, host_exit >>

\* lines 247-254: queue.get raises Empty; poll() first, then the timeout check
LoopEmpty ==
    /\ rpc = "loop"
    /\ output_queue = << >>
    /\ IF proc.state = "exited"
       THEN /\ rpc' = "join_out"
            /\ signals' = signals
       ELSE IF TimedOut
            THEN /\ rpc' = "grace"
                 /\ signals' = Append(signals, "terminate")
            ELSE /\ rpc' = "loop"
                 /\ signals' = signals
    /\ waited' = 0
    /\ UNCHANGED << inputVars, no_email, mpc, command, exec_command, start_time,
                    now, proc, emitted, pipe, reader, output_queue, stdout_lines,
                    stderr_lines, terminal, results, mailVars, host_exit >>

\* line 265: the tuple of the timeout path
TimeoutResult ==
    Result(EXIT_TIMEOUT, join(<<"\n">>, stdout_lines), MsgTimeout, "timeout")

\* lines 255-265: process.wait(timeout=5) returns, the child has exited
GraceExited ==
    /\ rpc = "grace"
    /\ proc.state = "exited"
    /\ Return(TimeoutResult)
    /\ UNCHANGED << inputVars, no_email, command, exec_command, start_time, now,
                    proc, emitted, pipe, reader, output_queue, stdout_lines,
                    stderr_lines, terminal, signals, mailVars, host_exit >>

\* GraceExpired without the wait of line 256: the kill follows the terminate
\* at once
GraceExpired_immediate ==
    /\ rpc = "grace"
    /\ proc.state = "running"
    /\ signals' = Append(signals, "kill")
    /\ rpc' = "reap"
    /\ waited' = 0
    /\ UNCHANGED << inputVars, no_email, mpc, command, exec_command, start_time,
                    now, proc, emitted, pipe, reader, output_queue, stdout_lines,
                    stderr_lines, terminal, results, mailVars, host_exit >>

\* lines 257-258: TimeoutExpired after the grace period, process.kill()
GraceExpired ==
    /\ rpc = "grace"
    /\ proc.state = "running"
    /\ waited >= GracePeriod
    /\ signals' = Append(signals, "kill")
    /\ rpc' = "reap"
    /\ waited' = 0
    /\ UNCHANGED << inputVars, no_email, mpc, command, exec_command, start_time,
                    now, proc, emitted, pipe, reader, output_queue, stdout_lines,
                    stderr_lines, terminal, results, mailVars, host_exit >>

\* lines 259-265: process.wait() after the kill, then the timeout tuple
Reap ==
    /\ rpc = "reap"
    /\ proc.state = "exited"
    /\ Return(TimeoutResult)
    /\ UNCHANGED << inputVars, no_email, command, exec_command, start_time, now,
                    proc, emitted, pipe, reader, output_queue, stdout_lines,
                    stderr_lines, terminal, signals, mailVars, host_exit >>

\* lines 268-269: thread.join(timeout=1) returns when the thread has ended or
\* when one second has passed
JoinReturns(s) == reader[s] \in {"done", "failed"} \/ waited >= JoinTimeout

JoinOut ==
    /\ rpc = "join_out"
    /\ JoinReturns("STDOUT")
    /\ rpc' = "join_err"
    /\ waited' = 0
    /\ UNCHANGED << inputVars, no_email, mpc, command, exec_command, start_time,
                    now, proc, emitted, pipe, reader, output_queue, stdout_lines,
                    stderr_lines, terminal, signals, results, mailVars, host_exit >>

JoinErr ==
    /\ rpc = "join_err"
    /\ JoinReturns("STDERR")
    /\ rpc' = "drain"
    /\ waited' = 0
    /\ UNCHANGED << inputVars, no_email, mpc, command, exec_command, start_time,
                    now, proc, emitted, pipe, reader, output_queue, stdout_lines,
                    stderr_lines, terminal, signals, results, mailVars, host_exit >>

\* lines 272-278: one round of the residual drain (no echo here)
DrainDequeue ==
    /\ rpc = "drain"
    /\ output_queue # << >>
    /\ LET ev == Head(output_queue) IN
       /\ stdout_lines' = Collect(ev, stdout_lines, "STDOUT")
       /\ stderr_lines' = Collect(ev, stderr_lines, "STDERR")
    /\ output_queue' = Tail(output_queue)
    /\ UNCHANGED << inputVars, no_email, mpc, command, exec_command, rpc,
                    start_time, now, waited, proc, emitted, pipe, reader,
                    terminal, signals, results, mailVars, host_exit >>

\* line 272: the queue is seen empty
DrainDone ==
    /\ rpc = "drain"
    /\ output_queue = << >>
    /\ rpc' = "wait"
    /\ UNCHANGED << inputVars, no_email, mpc, command, exec_command, start_time,
                    now, waited, proc, emitted, pipe, reader, output_queue,
                    stdout_lines, stderr_lines, terminal, signals, results,
                    mailVars, host_exit >>

\* NormalResult with the exit code reduced to success or failure
NormalResult_flattened ==
    Result(IF proc.returncode = 0 THEN 0 ELSE 1, join(<<"\n">>, stdout_lines),
           join(<<"\n">>, stderr_lines), "normal")

\* line 302: the tuple of the normal path
NormalResult ==
    Result(proc.returncode, join(<<"\n">>, stdout_lines),
           join(<<"\n">>, stderr_lines), "normal")

\* lines 283-302: process.wait() and the return of the normal path
WaitFinal ==
    /\ rpc = "wait"
    /\ proc.state = "exited"
    /\ Return(NormalResult)
    /\ UNCHANGED << inputVars, no_email, command, exec_command, start_time, now,
                    proc, emitted, pipe, reader, output_queue, stdout_lines,
                    stderr_lines, terminal, signals, mailVars, host_exit >>

(***************************************************************************)
(* stream_output(): the two reader threads.  Their steps are followed      *)
(* while run_command is running; what they do to the pipes and the queue   *)
(* after it has returned is read by nobody.                                *)
(***************************************************************************)
\* line 111: the event put on the queue for one line read
Event(s, line) == << s, rstrip(line) >>

\* lines 109-111: readline() returns a line, the event is queued
ReaderRead(s) ==
    /\ mpc = "run"
    /\ reader[s] = "reading"
    /\ pipe[s] # << >>
    /\ output_queue' = Append(output_queue, Event(s, Head(pipe[s])))
    /\ pipe' = [pipe EXCEPT ![s] = Tail(@)]
    /\ UNCHANGED << inputVars, no_email, mpc, command, exec_command, rpc,
                    start_time, now, waited, proc, emitted, reader, stdout_lines,
                    stderr_lines, terminal, signals, results, mailVars, host_exit >>

\* lines 109 and 112: readline() returns '' once the child has closed the pipe
ReaderEOF(s) ==
    /\ mpc = "run"
    /\ reader[s] = "reading"
    /\ pipe[s] = << >>
    /\ proc.state = "exited"
    /\ reader' = [reader EXCEPT ![s] = "done"]
    /\ UNCHANGED << inputVars, no_email, mpc, command, exec_command, rpc,
                    start_time, now, waited, proc, emitted, pipe, output_queue,
                    stdout_lines, stderr_lines, terminal, signals, results,
                    mailVars, host_exit >>

\* lines 113-114: reading the next line raises (it cannot be decoded); the
\* line is gone, one error event is queued and the thread ends
ReaderError(s) ==
    /\ mpc = "run"
    /\ reader[s] = "reading"
    /\ pipe[s] # << >>
    /\ output_queue' = Append(output_queue, << s, MsgReadError >>)
    /\ pipe' = [pipe EXCEPT ![s] = Tail(@)]
    /\ reader' = [reader EXCEPT ![s] = "failed"]
    /\ UNCHANGED << inputVars, no_email, mpc, command, exec_command, rpc,
                    start_time, now, waited, proc, emitted, stdout_lines,
                    stderr_lines, terminal, signals, results, mailVars, host_exit >>

(***************************************************************************)
(* The child process and the clock (the environment of run_command),       *)
(* followed while run_command is running                                   *)
(***************************************************************************)
\* the child writes its next line to one of its streams (MaxEmit lines in all).
\* The pipes are those of lines 211-212: a pipe holds PipeCap unread lines, and
\* a write to a full pipe blocks the child until the reader has made room
ChildWrite(s) ==
    /\ mpc = "run"
    /\ proc.state = "running"
    /\ proc.blocked = "none"
    /\ Len(emitted["STDOUT"]) + Len(emitted["STDERR"]) < MaxEmit
    /\ IF Len(pipe[s]) < PipeCap
       THEN LET line == RawLine(s, Len(emitted[s]) + 1) IN
            /\ emitted' = [emitted EXCEPT ![s] = Append(@, line)]
            /\ pipe' = [pipe EXCEPT ![s] = Append(@, line)]
            /\ proc' = proc
       ELSE /\ proc' = [proc EXCEPT !.blocked = s]
            /\ emitted' = emitted
            /\ pipe' = pipe
    /\ UNCHANGED << inputVars, no_email, mpc, command, exec_command, rpc,
                    start_time, now, waited, reader, output_queue,
                    stdout_lines, stderr_lines, terminal, signals, results,
                    mailVars, host_exit >>

\* the reader has made room: the blocked write completes
ChildUnblock ==
    /\ mpc = "run"
    /\ proc.state = "running"
    /\ proc.blocked # "none"
    /\ Len(pipe[proc.blocked]) < PipeCap
    /\ LET s == proc.blocked
           line == RawLine(s, Len(emitted[s]) + 1) IN
       /\ emitted' = [emitted EXCEPT ![s] = Append(@, line)]
       /\ pipe' = [pipe EXCEPT ![s] = Append(@, line)]
    /\ proc' = [proc EXCEPT !.blocked = "none"]
    /\ UNCHANGED << inputVars, no_email, mpc, command, exec_command, rpc,
                    start_time, now, waited, reader, output_queue,
                    stdout_lines, stderr_lines, terminal, signals, results,
                    mailVars, host_exit >>

\* the child exits on its own with code n (not while it is blocked in a write)
ChildExit(n) ==
    /\ mpc = "run"
    /\ proc.state = "running"
    /\ proc.blocked = "none"
    /\ proc' = [state |-> "exited", returncode |-> n, own_exit |-> TRUE,
                blocked |-> "none"]
    /\ UNCHANGED << inputVars, no_email, mpc, command, exec_command, rpc,
                    start_time, now, waited, emitted, pipe, reader, output_queue,
                    stdout_lines, stderr_lines, terminal, signals, results,
                    mailVars, host_exit >>

\* the child dies of the last signal sent to it (lines 254 and 258); Popen
\* reports death by signal N as returncode -N (SIGTERM is 15, SIGKILL 9)
ChildSignalled ==
    /\ mpc = "run"
    /\ proc.state = "running"
    /\ signals # << >>
    /\ proc' = [state |-> "exited",
                returncode |-> IF signals[Len(signals)] = "kill"
                               THEN 0 - 9 ELSE 0 - 15,
                own_exit |-> FALSE,
                blocked |-> "none"]
    /\ UNCHANGED << inputVars, no_email, mpc, command, exec_command, rpc,
                    start_time, now, waited, emitted, pipe, reader, output_queue,
                    stdout_lines, stderr_lines, terminal, signals, results,
                    mailVars, host_exit >>

\* how long the calling thread can stay blocked in its current call: queue.get
\* on an empty queue waits 0.1 s, which crosses at most one tick of the clock
\* (line 240), wait(timeout=5) the grace period (line 256), join one second
\* (lines 268-269); every other step takes no time.  In the loop the clock is
\* read by the timeout test of line 253 only, so it is followed there when a
\* timeout is configured
Delay ==
    CASE rpc = "loop" ->
           IF output_queue = << >> /\ args.timeout # 0 THEN PollTicks ELSE 0
      [] rpc = "grace" -> IF proc.state = "running" THEN GracePeriod ELSE 0
      [] rpc = "join_out" -> IF reader["STDOUT"] = "reading" THEN JoinTimeout ELSE 0
      [] rpc = "join_err" -> IF reader["STDERR"] = "reading" THEN JoinTimeout ELSE 0
      [] OTHER -> 0

\* one second passes
Tick ==
    /\ mpc = "run"
    /\ now < MaxTime
    /\ waited < Delay
    /\ now' = now + 1
    /\ waited' = waited + 1
    /\ UNCHANGED << inputVars, no_email, mpc, command, exec_command, rpc,
                    start_time, proc, emitted, pipe, reader, output_queue,
                    stdout_lines, stderr_lines, terminal, signals, results,
                    mailVars, host_exit >>

(***************************************************************************)
(* main(), after run_command                                               *)
(***************************************************************************)
\* line 362: main's exit_code is the first field of the returned tuple
exit_code == results[Len(results)].exit_code

\* Status with the timeout code 124 counted as a success
Status_timeout_ok(code) ==
    IF code = 0 \/ code = EXIT_TIMEOUT THEN "SUCCESS" ELSE "FAILURE"

\* lines 377, 390, 412
Status(code) == IF code = 0 THEN "SUCCESS" ELSE "FAILURE"

\* line 365: --no-email, or no password
MainNotifySkip ==
    /\ mpc = "notify"
    /\ no_email
    /\ mpc' = "exit"
    /\ UNCHANGED << inputVars, no_email, command, runVars, mailVars, host_exit >>

\* MainNotifierInit without the test of line 365
MainNotifierInit_unguarded ==
    /\ mpc = "notify"
    /\ IF env_password
       THEN /\ notifier' = TRUE
            /\ mpc' = "send"
       ELSE /\ notifier' = notifier
            /\ mpc' = "exit"
    /\ UNCHANGED << inputVars, no_email, command, runVars, sends, host_exit >>

\* line 367 and send_email.py lines 51-54: EmailNotifier() raises ValueError
\* without the password; main catches it at line 415
MainNotifierInit ==
    /\ mpc = "notify"
    /\ ~no_email
    /\ IF env_password
       THEN /\ notifier' = TRUE
            /\ mpc' = "send"
       ELSE /\ notifier' = notifier
            /\ mpc' = "exit"
    /\ UNCHANGED << inputVars, no_email, command, runVars, sends, host_exit >>

\* lines 377-416 and send_email.py lines 138-167: send_notification returns
\* True or raises; main catches every Exception
MainSend(outcome) ==
    /\ mpc = "send"
    /\ sends' = Append(sends, [status |-> Status(exit_code), outcome |-> outcome])
    /\ mpc' = "exit"
    /\ UNCHANGED << inputVars, no_email, command, runVars, notifier, host_exit >>

\* ExitArgument with a failed send turned into exit code 1
ExitArgument_send_failed ==
    IF sends # << >> /\ sends[Len(sends)].outcome = "raised" THEN 1 ELSE exit_code

\* line 419
ExitArgument == exit_code

MainExit ==
    /\ mpc = "exit"
    /\ host_exit' = ExitArgument
    /\ mpc' = "exited"
    /\ UNCHANGED << inputVars, no_email, command, runVars, mailVars >>

Next ==
    \/ MainParse
    \/ MainCheckEnv
    \/ RunStart
    \/ SpawnOk
    \/ SpawnNotFound
    \/ SpawnError
    \/ LoopDequeue
    \/ LoopEchoError
    \/ LoopEmpty
    \/ GraceExited
    \/ GraceExpired
    \/ Reap
    \/ JoinOut
    \/ JoinErr
    \/ DrainDequeue
    \/ DrainDone
    \/ WaitFinal
    \/ \E s \in Streams : ReaderRead(s)
    \/ \E s \in Streams : ReaderEOF(s)
    \/ \E s \in Streams : ReaderError(s)
    \/ \E s \in Streams : ChildWrite(s)
    \/ ChildUnblock
    \/ \E n \in ExitCodes : ChildExit(n)
    \/ ChildSignalled
    \/ Tick
    \/ MainNotifySkip
    \/ MainNotifierInit
    \/ \E outcome \in {"sent", "raised"} : MainSend(outcome)
    \/ MainExit

Spec == Init /\ [][Next]_vars

(***************************************************************************)
(* get_shell_command on its own: every argument vector of at most MaxArgs  *)
(* tokens, on every platform                                               *)
(***************************************************************************)
Tokens ==
    { <<"a">>, <<"-", "c">>, <<"a", "|", "b">>, <<"&", "&">>, <<"|", "|">>,
      <<";">>, <<">">>, <<"<">>, <<"x", "&">>, <<"a", " ", "b">> }

Argvs == UNION { [1..n -> Tokens] : n \in 0..MaxArgs }

InitShell ==
    /\ args = Args(<< >>, << >>, 0)
    /\ no_email = TRUE
    /\ env_password = FALSE
    /\ system \in Systems
    /\ mpc = "shell_input"
    /\ command \in Argvs
    /\ exec_command = << >>
    /\ rpc = "idle"
    /\ start_time = 0
    /\ now = 0
    /\ waited = 0
    /\ proc = NoProc
    /\ emitted = [s \in Streams |-> << >>]
    /\ pipe = [s \in Streams |-> << >>]
    /\ reader = [s \in Streams |-> "idle"]
    /\ output_queue = << >>
    /\ stdout_lines = << >>
    /\ stderr_lines = << >>
    /\ terminal = [s \in Streams |-> << >>]
    /\ signals = << >>
    /\ results = << >>
    /\ notifier = FALSE
    /\ sends = << >>
    /\ host_exit = 0

\* line 198
ShellApply ==
    /\ mpc = "shell_input"
    /\ exec_command' = get_shell_command(command, system)
    /\ mpc' = "shell_done"
    /\ UNCHANGED << inputVars, no_email, command, rpc, start_time, now, waited,
                    proc, emitted, pipe, reader, output_queue, stdout_lines,
                    stderr_lines, terminal, signals, results, mailVars, host_exit >>

NextShell == ShellApply

SpecShell == InitShell /\ [][NextShell]_vars

(***************************************************************************)
(* run_command called twice on the same command, without a timeout: the    *)
(* second call starts from the state the first call started from, and the  *)
(* result of the first call stays in `results`.  No spawn failure, no read *)
(* error and no echo error occurs in either run; the child writes to its   *)
(* stdout only and exits with code 0 when it exits.                        *)
(***************************************************************************)
InitTwice ==
    /\ args = Args(<< >>, PlainList, 0)
    /\ no_email = TRUE
    /\ env_password = FALSE
    /\ system = "linux"
    /\ mpc = "run"
    /\ command = PlainList
    /\ exec_command = << >>
    /\ rpc = "idle"
    /\ start_time = 0
    /\ now = 0
    /\ waited = 0
    /\ proc = NoProc
    /\ emitted = [s \in Streams |-> << >>]
    /\ pipe = [s \in Streams |-> << >>]
    /\ reader = [s \in Streams |-> "idle"]
    /\ output_queue = << >>
    /\ stdout_lines = << >>
    /\ stderr_lines = << >>
    /\ terminal = [s \in Streams |-> << >>]
    /\ signals = << >>
    /\ results = << >>
    /\ notifier = FALSE
    /\ sends = << >>
    /\ host_exit = 0

\* line 180: the second call of run_command(command, timeout)
Rerun ==
    /\ rpc = "done"
    /\ Len(results) = 1
    /\ mpc' = "run"
    /\ exec_command' = << >>
    /\ rpc' = "idle"
    /\ start_time' = 0
    /\ now' = 0
    /\ waited' = 0
    /\ proc' = NoProc
    /\ emitted' = [s \in Streams |-> << >>]
    /\ pipe' = [s \in Streams |-> << >>]
    /\ reader' = [s \in Streams |-> "idle"]
    /\ output_queue' = << >>
    /\ stdout_lines' = << >>
    /\ stderr_lines' = << >>
    /\ terminal' = [s \in Streams |-> << >>]
    /\ signals' = << >>
    /\ UNCHANGED << inputVars, no_email, command, results, mailVars, host_exit >>

NextTwice ==
    \/ RunStart
    \/ SpawnOk
    \/ LoopDequeue
    \/ LoopEmpty
    \/ JoinOut
    \/ JoinErr
    \/ DrainDequeue
    \/ DrainDone
    \/ WaitFinal
    \/ \E s \in Streams : ReaderRead(s)
    \/ \E s \in Streams : ReaderEOF(s)
    \/ ChildWrite("STDOUT")
    \/ ChildUnblock
    \/ ChildExit(0)
    \/ Tick
    \/ Rerun

SpecTwice == InitTwice /\ [][NextTwice]_vars

(***************************************************************************)
(* One run of run_command without a timeout, read errors included, under   *)
(* fair scheduling: the calling thread and each reader thread take their   *)
(* next step when they can, and the child, when it is not blocked in a     *)
(* write, goes on to its exit.                                             *)
(***************************************************************************)
CallerStep ==
    \/ RunStart
    \/ SpawnOk
    \/ LoopDequeue
    \/ LoopEmpty
    \/ JoinOut
    \/ JoinErr
    \/ DrainDequeue
    \/ DrainDone
    \/ WaitFinal

ReaderStep(s) == ReaderRead(s) \/ ReaderEOF(s)

ChildStep == ChildUnblock \/ \E n \in ExitCodes : ChildExit(n)

NextFair ==
    \/ CallerStep
    \/ \E s \in Streams : ReaderStep(s)
    \/ \E s \in Streams : ReaderError(s)
    \/ \E s \in Streams : ChildWrite(s)
    \/ ChildStep
    \/ Tick

SpecFair ==
    /\ InitTwice
    /\ [][NextFair]_vars
    /\ WF_vars(CallerStep)
    /\ \A s \in Streams : WF_vars(ReaderStep(s))
    /\ WF_vars(ChildStep)

(***************************************************************************)
(* Properties                                                              *)
(***************************************************************************)
Returned == results # << >>

TheResult == results[1]

NoReadError == \A s \in Streams : reader[s] # "failed"

\* the lines the child has written to stream s, without their line ends
\* and trailing blanks, joined the way the result tuple joins them
EmittedText(s) ==
    join(<<"\n">>, [i \in 1..Len(emitted[s]) |-> rstrip(emitted[s][i])])

\* C1: a run that ends by normal completion returns the exit code the child
\* exited with, and main passes that same code to sys.exit.
C1_ExitCodePreserved ==
    (Returned /\ TheResult.path = "normal") =>
        /\ proc.state = "exited"
        /\ proc.own_exit
        /\ proc.returncode \in ExitCodes
        /\ TheResult.exit_code = proc.returncode
        /\ (mpc = "exited" => host_exit = proc.returncode)

C1_Witness ==
    /\ mpc = "exited"
    /\ Returned
    /\ TheResult.path = "normal"
    /\ proc.returncode = 255
    /\ host_exit = 255

\* C2: on normal completion without a read error the result holds every line
\* the child wrote to stdout, in order, and every line it wrote to stderr, in
\* order, whatever the readers and the joins did.
C2_AllLinesCaptured ==
    (Returned /\ TheResult.path = "normal" /\ NoReadError) =>
        /\ TheResult.stdout = EmittedText("STDOUT")
        /\ TheResult.stderr = EmittedText("STDERR")

\* C3: with a timeout T configured and a child that does not exit on its own
\* (and no read error), once more than T + grace period + polling slack has passed since the start
\* run_command has returned the timeout result.
C3_TimeoutBounded ==
    ( /\ args.timeout # 0
      /\ NoReadError
      /\ proc.state # "none"
      /\ ~proc.own_exit
      /\ (now - start_time) > args.timeout + GracePeriod + PollTicks ) =>
        /\ Returned
        /\ TheResult.path = "timeout"
        /\ TheResult.exit_code = EXIT_TIMEOUT

\* C4: the timeout result holds every line the draining loop had dequeued,
\* the stdout lines in its stdout text and the stderr lines in its stderr text.
C4_DequeuedOutputKept ==
    (Returned /\ TheResult.path = "timeout" /\ NoReadError) =>
        /\ \A i \in 1..Len(stdout_lines) : Contains(TheResult.stdout, stdout_lines[i])
        /\ \A i \in 1..Len(stderr_lines) : Contains(TheResult.stderr, stderr_lines[i])

\* C5 as claimed: a result for an executable that was not found has exit code
\* 127 and empty stdout and stderr.
C5_NotFoundNoOutput ==
    (Returned /\ TheResult.path = "not_found") =>
        /\ TheResult.exit_code = EXIT_NOT_FOUND
        /\ TheResult.stdout = << >>
        /\ TheResult.stderr = << >>

\* C5 as amended: a result for an executable that was not found has exit code
\* 127, empty stdout, and the not-found message in its stderr field; no child
\* was spawned and no child output exists.
C5_NotFoundMessage ==
    (Returned /\ TheResult.path = "not_found") =>
        /\ TheResult.exit_code = EXIT_NOT_FOUND
        /\ TheResult.stdout = << >>
        /\ TheResult.stderr = MsgNotFound
        /\ proc = NoProc
        /\ \A s \in Streams : emitted[s] = << >> /\ reader[s] = "idle"

C5_Witness ==
    /\ Returned
    /\ TheResult.path = "not_found"
    /\ mpc = "exited"

WellFormed(r) ==
    /\ r.exit_code \in Int
    /\ r.duration \in Nat
    /\ r.path = "not_found" => r.exit_code = EXIT_NOT_FOUND
    /\ r.path \in {"error", "loop_error"} => r.exit_code = EXIT_ERROR
    /\ r.path = "timeout" => r.exit_code = EXIT_TIMEOUT
    /\ r.path \in {"normal", "timeout", "not_found", "error", "loop_error"}

\* C6: run_command hands back exactly one result: none while it runs, one
\* well-formed tuple once it has ended (also after not-found, a spawn error or
\* a timeout), control returns to main with it, and no later step changes it.
C6_OneResult ==
    /\ [](/\ Len(results) <= 1
          /\ (rpc = "done") <=> Returned
          /\ Returned => (WellFormed(TheResult) /\ mpc \in {"notify", "send", "exit", "exited"})
          /\ (mpc \in {"notify", "send", "exit"}) => Returned)
    /\ [][Returned => results' = results]_vars

C6_Witness ==
    /\ mpc = "exited"
    /\ Returned
    /\ TheResult.path = "timeout"
    /\ sends # << >>

\* C7: once a send has been attempted, whether it succeeded or raised, main
\* goes on to its exit and exits with the code run_command returned.
C7_SendFailureHarmless ==
    (sends # << >>) =>
        /\ mpc \in {"exit", "exited"}
        /\ Len(sends) = 1
        /\ (mpc = "exited" => host_exit = TheResult.exit_code)

C7_Witness ==
    /\ mpc = "exited"
    /\ sends # << >>
    /\ sends[1].outcome = "raised"
    /\ TheResult.exit_code = 255
    /\ host_exit = 255

\* C8: with --no-email or without the password no notifier is constructed and
\* no send is attempted, and a command that parsed is still run and its exit
\* code is the host's exit code.
C8_NoEmailStillRuns ==
    (no_email \/ ~env_password) =>
        /\ ~notifier
        /\ sends = << >>
        /\ (mpc = "exited" /\ command # << >>) =>
               (Returned /\ host_exit = TheResult.exit_code)

C8_Witness ==
    /\ mpc = "exited"
    /\ ~env_password
    /\ Returned
    /\ TheResult.path = "normal"
    /\ host_exit = 255

Malformed == args.command_string # << >> /\ ~shlex_split(args.command_string).ok

\* C9: a positional command string that shlex cannot parse makes main exit
\* with code 1 straight from the parse step: run_command is not entered, no
\* child is spawned, nothing is sent.
C9_ParseErrorExits ==
    Malformed =>
        /\ mpc \in {"parse", "exited"}
        /\ (mpc = "exited" => host_exit = EXIT_PARSE)
        /\ rpc = "idle"
        /\ proc = NoProc
        /\ results = << >>
        /\ ~notifier
        /\ sends = << >>

C9_Witness == Malformed /\ mpc = "exited"

\* the operators, as the claim lists them
ClaimedOperators == { <<"|">>, <<">">>, <<"<">>, <<"&", "&">>, <<"|", "|">>, <<";">>, <<"&">> }

ShellOf(sys) ==
    IF sys = "windows" THEN << <<"c", "m", "d">>, <<"/", "c">> >>
    ELSE << <<"b", "a", "s", "h">>, <<"-", "c">> >>

\* C10: get_shell_command returns [shell, flag, text] with the whole joined
\* text when an operator occurs in the joined text, and the argument vector
\* itself otherwise.
C10_ShellWrap ==
    (mpc = "shell_done") =>
        LET text == join(<<" ">>, command) IN
        IF \E op \in ClaimedOperators : Contains(text, op)
        THEN exec_command = Append(ShellOf(system), text)
        ELSE exec_command = command

C10_Witness ==
    /\ mpc = "shell_done"
    /\ system = "windows"
    /\ Len(command) = 2
    /\ Len(exec_command) = 3
    /\ exec_command[3] = <<"a", " ", "x", "&">>

\* C11: two runs of run_command on the same command whose children wrote the
\* same lines to the same streams and exited with the same code return the
\* same exit code, the same stdout text and the same stderr text.
C11_SameResult ==
    (Len(results) = 2 /\ results[1].child = results[2].child) =>
        /\ results[1].exit_code = results[2].exit_code
        /\ results[1].stdout = results[2].stdout
        /\ results[1].stderr = results[2].stderr

\* C12: the draining loop notices an elapsed timeout within one pass: every
\* pass of the loop (an event dequeued, or an empty poll) that is made once the
\* configured timeout has elapsed, with the child still running, issues the
\* terminate request and enters the timeout path, whether or not the child
\* keeps writing.
C12_TimeoutNoticed ==
    [][((LoopDequeue \/ LoopEmpty) /\ TimedOut /\ proc.state = "running")
           => (rpc' = "grace" /\ signals' = <<"terminate">>)]_vars

\* C13: the timeout path is a two-phase shutdown.  The requests issued to the
\* child are none, then terminate, then possibly kill; the kill is issued only
\* from the grace wait, once it has lasted the whole grace period with the
\* child still running; no request is issued to a child that has exited
\* during the grace wait; and a timeout result exists only once the child has
\* exited.
C13_TwoPhaseShutdown ==
    /\ [](/\ signals \in {<< >>, <<"terminate">>, <<"terminate", "kill">>}
          /\ (rpc = "grace" => signals = <<"terminate">>)
          /\ (rpc = "reap" => signals = <<"terminate", "kill">>)
          /\ (Returned /\ TheResult.path = "timeout") =>
                 (proc.state = "exited" /\ signals # << >>))
    /\ [][(signals' # signals /\ Len(signals') = 2) =>
              /\ signals = <<"terminate">>
              /\ rpc = "grace"
              /\ waited >= GracePeriod
              /\ proc.state = "running"]_vars
    /\ [][(rpc = "grace" /\ proc.state = "exited") => signals' = signals]_vars

C13_Witness ==
    /\ Returned
    /\ TheResult.path = "timeout"
    /\ signals = <<"terminate", "kill">>
    /\ proc.returncode = 0 - 9
    /\ mpc = "exited"

IsPrefix(a, b) == Len(a) <= Len(b) /\ \A i \in 1..Len(a) : a[i] = b[i]

\* a line as written, without its line end
StripNewline(line) ==
    IF line # << >> /\ line[Len(line)] = "\n" THEN SubSeq(line, 1, Len(line) - 1)
    ELSE line

EmittedLines(s) == [i \in 1..Len(emitted[s]) |-> StripNewline(emitted[s][i])]

EmittedStripped(s) == [i \in 1..Len(emitted[s]) |-> rstrip(emitted[s][i])]

C15_CapturedWasEchoed ==
    Returned =>
        /\ stdout_lines = terminal["STDOUT"]
        /\ stderr_lines = terminal["STDERR"]

\* C16: main attempts at most one send; the send is made after run_command
\* has returned and before main exits; its status is SUCCESS when the returned
\* exit code is 0 and FAILURE for every other code (124, 127 and 1 included).
C16_OneSendAfterRun ==
    /\ [](/\ Len(sends) <= 1
          /\ (sends # << >>) =>
                 /\ Returned
                 /\ (TheResult.exit_code = 0 => sends[1].status = "SUCCESS")
                 /\ (TheResult.exit_code # 0 => sends[1].status = "FAILURE")
                 /\ (TheResult.path \in {"timeout", "not_found", "error"} =>
                        /\ TheResult.exit_code \in {EXIT_TIMEOUT, EXIT_NOT_FOUND, EXIT_ERROR}
                        /\ sends[1].status = "FAILURE"))
    /\ [][(sends' # sends) =>
              /\ sends = << >>
              /\ Returned
              /\ rpc = "done"
              /\ mpc = "send"
              /\ mpc' = "exit"]_vars
    /\ [][(mpc = "exited") => (sends' = sends)]_vars

C16_Witness ==
    /\ mpc = "exited"
    /\ Len(sends) = 1
    /\ sends[1].status = "FAILURE"
    /\ TheResult.exit_code = EXIT_TIMEOUT
    /\ host_exit = EXIT_TIMEOUT

\* C17: when the spawn fails with an error other than not-found, the result
\* has exit code 1, empty stdout and the error message in its stderr field;
\* there is no child, no reader thread was started, and nothing was queued,
\* collected, echoed or signalled.
C17_SpawnErrorResult ==
    (Returned /\ TheResult.path = "error") =>
        /\ TheResult.exit_code = 1
        /\ TheResult.stdout = << >>
        /\ TheResult.stderr = MsgSpawnError
        /\ TheResult.stderr # << >>
        /\ proc = NoProc
        /\ \A s \in Streams :
              reader[s] = "idle" /\ emitted[s] = << >> /\ terminal[s] = << >>
        /\ output_queue = << >>
        /\ stdout_lines = << >>
        /\ stderr_lines = << >>
        /\ signals = << >>

C17_Witness ==
    /\ Returned
    /\ TheResult.path = "error"
    /\ mpc = "exited"
    /\ host_exit = 1

\* the lines of stream s that the calling thread has collected, followed by
\* those still in the queue
Seen(s) ==
    LET mine(ev) == ev[1] = s
        q == SelectSeq(output_queue, mine)
        collected == IF s = "STDOUT" THEN stdout_lines ELSE stderr_lines
    IN  collected \o [i \in 1..Len(q) |-> q[i][2]]

\* C18: a reader that hits a read error queues exactly one error line, tagged
\* with its own stream, after the lines it had queued before, which stay in
\* order, and ends; the other reader's lines are not affected; and
\* run_command still returns a result.
C18_ReadErrorContained ==
    /\ [](\A s \in Streams :
            IF reader[s] = "failed"
            THEN \E k \in 0..Len(emitted[s]) :
                    Seen(s) = SubSeq(EmittedStripped(s), 1, k) \o << MsgReadError >>
            ELSE IsPrefix(Seen(s), EmittedStripped(s)))
    /\ ((\E s \in Streams : reader[s] = "failed") ~> Returned)

\* C19: on an empty poll the exit test comes first.  An empty poll that finds
\* the child exited leaves the loop by the normal path and issues no request,
\* also when the timeout has elapsed; no terminate or kill is ever issued to
\* a child that has exited; the normal path is entered and followed only
\* with the child exited and unsignalled, and its result carries the exit
\* code the child exited with.
C19_ExitBeforeTimeout ==
    /\ [][(LoopEmpty /\ proc.state = "exited") =>
              (rpc' = "join_out" /\ signals' = signals)]_vars
    /\ [][(signals' # signals) => proc.state = "running"]_vars
    /\ [](/\ (rpc \in {"join_out", "join_err", "drain", "wait"}) =>
                 (proc.state = "exited" /\ proc.own_exit /\ signals = << >>)
          /\ (Returned /\ TheResult.path = "normal") =>
                 /\ proc.state = "exited"
                 /\ proc.own_exit
                 /\ signals = << >>
                 /\ TheResult.exit_code = proc.returncode)

C19_Witness ==
    /\ Returned
    /\ TheResult.path = "normal"
    /\ args.timeout # 0
    /\ TheResult.duration > args.timeout
    /\ TheResult.exit_code = 255
    /\ signals = << >>

\* C20: a result returned after the child was spawned (by the normal path,
\* the timeout path or the generic handler) is returned with the child
\* exited: run_command never returns while its child is running.
C20_ChildExitedOnReturn ==
    (Returned /\ proc.state # "none") =>
        /\ TheResult.path \in {"normal", "timeout", "loop_error"}
        /\ proc.state = "exited"

====
